---- MODULE Spec2Model ----
(***************************************************************************)
(* Model of apps/axon_python/src/axon_python/agent_wrapper.py: the FastAPI *)
(* handlers around the agent registry agent_instances, the synchronous run,*)
(* the streaming run (run_agent_stream driving the generator               *)
(* run_and_stream), the tool dispatcher, the log endpoint and the crash    *)
(* endpoint.                                                               *)
(*                                                                         *)
(* Handlers are coroutines on one event loop: a handler runs without       *)
(* interruption between two awaits, so each action below is the code       *)
(* between two suspension points of one handler.                           *)
(*                                                                         *)
(* Python values: a dict is a function whose DOMAIN is its key set (the    *)
(* empty dict is << >>); a raised exception is a record with field raised; *)
(* an HTTP response is a record with field status_code.                    *)
(***************************************************************************)
EXTENDS Integers, Sequences, FiniteSets, TLC

\* ---------------------------------------------------------------- bounds
\* Number of request handlers that may be in flight together.
NumHandlers == 2
\* Largest number of fragments the engine produces in one stream.
MaxFragments == 2

Handlers == 1..NumHandlers

\* ------------------------------------------------------- request universe
\* Agent ids used in requests: the two ids the module registers at import
\* time and one id that is not registered.
AgentIds == {"example_agent", "bank_support_agent", "A"}

EmptyDict == << >>

\* Tool names used in tool_call requests.
ToolNames == {"add", "some_tool"}

\* Bodies of POST /agents.
CreateBodies ==
    {[agent_id |-> i, model |-> "gpt-4o", system_prompt |-> "You are helpful.",
      tools |-> <<[name |-> "some_tool"]>>,
      result_type |-> [field1 |-> [type |-> "string"]]] : i \in AgentIds}
    \cup {[agent_id |-> "A", model |-> "gpt-4o", system_prompt |-> "You are helpful."],
          [agent_id |-> "A", system_prompt |-> "You are helpful."],
          [model |-> "gpt-4o", system_prompt |-> "You are helpful."]}

\* Bodies of run_sync and run_stream.
RunBodies == {[prompt |-> "hi"], EmptyDict}

\* Bodies of tool_call.
ToolBodies ==
    {[args |-> [a |-> 2, b |-> 3]], [args |-> [arg1 |-> "x", arg2 |-> 1]], EmptyDict}

\* Bodies of log, already validated as LogEntry by the framework.
LogEntries == {[timestamp |-> "2024-01-01T00:00:00", level |-> "info", message |-> "m"]}

\* What one call of the external engine does in agent.run_sync.
RunSyncOutcomes == {"ok", "ValidationError", "UnexpectedModelBehavior", "RuntimeError"}

\* --------------------------------------------------------------- state
VARIABLES
    agent_instances,  \* the registry: dict agent id -> agent
    alive,            \* FALSE once os._exit has run
    op,               \* per handler: the endpoint it serves ("none" when idle)
    pc,               \* per handler: its position
    req,              \* per handler: path/query parameters and body
    response,         \* per handler: the HTTP response returned or raised
    engine_calls,     \* per handler: calls of agent.run_sync / agent.run_stream
    tool_calls,       \* per handler: invocations of tool functions, in order
    log_lines,        \* per handler: lines printed by log_message
    session,          \* per handler: engine session "none" | "open" | "closed"
    produced,         \* per handler: fragments result.stream_text() has produced
    events,           \* per handler: items the generator has yielded
    channel,          \* per handler: "none" | "open" | "closed" | "broken" | "abandoned"
    escaped           \* per handler: class of the exception that left the generator

vars == <<agent_instances, alive, op, pc, req, response, engine_calls, tool_calls,
          log_lines, session, produced, events, channel, escaped>>

streamVars == <<session, produced, events, channel, escaped>>

NoRequest == [agent_id |-> "", body |-> EmptyDict]
NoResponse == [status_code |-> 0]

\* ------------------------------------------------------ python helpers
Raise(class, msg) == [raised |-> TRUE, class |-> class, message |-> msg]
Return(v) == [raised |-> FALSE, value |-> v]

\* dict.get(key, default)
Get(d, key, default) == IF key \in DOMAIN d THEN d[key] ELSE default

HTTPException(code, detail) == [status_code |-> code, detail |-> detail]
JSONResponse(content) == [status_code |-> 200, content |-> content]
PlainTextResponse(text, code) == [status_code |-> code, text |-> text]
StreamingResponse == [status_code |-> 200, streaming |-> TRUE]

\* str(e) of an exception record; an HTTPException prints as "<status>: <detail>".
str(e) ==
    IF e.class = "HTTPException"
    THEN ToString(e.status_code) \o ": " \o e.detail
    ELSE e.message

\* e.errors() of a pydantic ValidationError: the list of error details, as
\* it is serialized into the response.
errors(e) == "[{\"msg\": \"" \o e.message \o "\"}]"

\* ------------------------------------------------------------ registry
\* Tools known to the model: name -> parameter names.
add_params == {"a", "b"}
some_tool_params == {"arg1", "arg2"}
ToolParams == [add |-> add_params, some_tool |-> some_tool_params]

\* The agents imported at module load. Their defining modules are not part
\* of the sources; the tool tables follow the specification's example
\* (an agent with a tool add) and the placeholder some_tool.
example_agent == [model |-> "openai:gpt-4o", system_prompt |-> "example",
                  tools |-> {"add"}]
support_agent == [model |-> "openai:gpt-4o", system_prompt |-> "support",
                  tools |-> {"some_tool"}]

_resolve_model_name(model_name) == "openai:" \o model_name

\* _resolve_tools exists only inside a comment: looking the name up at
\* line 154 raises NameError.
_resolve_tools(tool_configs) ==
    Raise("NameError", "name '_resolve_tools' is not defined")

ResultFieldTypes == {"string", "integer", "boolean", "number", "array", "object", "null"}

_resolve_result_type(result_type_config) ==
    IF \E f \in DOMAIN result_type_config :
           result_type_config[f].type \notin ResultFieldTypes
    THEN Raise("KeyError", "type")
    ELSE Return([f \in DOMAIN result_type_config |-> result_type_config[f].type])

\* The entry stored as soon as the id is read, before the duplicate test
\* and the resolution of the definition.
create_agent_try_insert_first(data, instances) ==
    IF "agent_id" \notin DOMAIN data
    THEN [out |-> Raise("KeyError", "'agent_id'"), instances |-> instances]
    ELSE [out |-> _resolve_tools(Get(data, "tools", << >>)),
          instances |-> [i \in DOMAIN instances \cup {data.agent_id} |->
                            IF i = data.agent_id
                            THEN [model |-> "", system_prompt |-> "", tools |-> {}]
                            ELSE instances[i]]]

\* The try block of create_agent (lines 146-167) after request.json() has
\* returned data: the value returned or the exception raised, and the
\* registry afterwards.
create_agent_try(data, instances) ==
    IF "agent_id" \notin DOMAIN data
    THEN [out |-> Raise("KeyError", "'agent_id'"), instances |-> instances]
    ELSE IF data.agent_id \in DOMAIN instances
    THEN [out |-> [raised |-> TRUE, class |-> "HTTPException", status_code |-> 400,
                   detail |-> "Agent with this ID already exists"],
          instances |-> instances]
    ELSE IF "model" \notin DOMAIN data
    THEN [out |-> Raise("KeyError", "'model'"), instances |-> instances]
    ELSE IF "system_prompt" \notin DOMAIN data
    THEN [out |-> Raise("KeyError", "'system_prompt'"), instances |-> instances]
    ELSE LET tools == _resolve_tools(Get(data, "tools", << >>)) IN
    IF tools.raised
    THEN [out |-> tools, instances |-> instances]
    ELSE LET result_type == _resolve_result_type(Get(data, "result_type", EmptyDict)) IN
    IF result_type.raised
    THEN [out |-> result_type, instances |-> instances]
    ELSE LET agent == [model |-> _resolve_model_name(data.model),
                       system_prompt |-> data.system_prompt,
                       tools |-> tools.value]
         IN [out |-> Return(JSONResponse([status |-> "success", agent_id |-> data.agent_id])),
             instances |-> [i \in DOMAIN instances \cup {data.agent_id} |->
                               IF i = data.agent_id THEN agent ELSE instances[i]]]

\* The except clauses of create_agent (lines 169-172).
create_agent_except(e) ==
    IF e.class = "ValidationError"
    THEN HTTPException(400, errors(e))
    ELSE HTTPException(500, str(e))

\* The chunk loop iterated without awaiting: a handler inside the stream
\* keeps the event loop until its terminal event.
Suspended_blocking_stream(p) ==
    p \in {"idle", "await_json", "gen_start", "done", "exited"}

\* Positions at which a handler has given the event loop back: before and
\* after its request, at await request.json() (line 146), inside the async
\* with entry (line 324), at the async for and the yields of the chunk loop
\* (lines 332-346) and at the yield of the terminal event.
Suspended(p) ==
    p \in {"idle", "await_json", "gen_start", "opening", "streaming",
           "after_terminal", "done", "exited"}

\* The event loop can take up a request when no handler is running.
LoopFree == \A g \in Handlers : Suspended(pc[g])

Idle(h) == alive /\ pc[h] = "idle" /\ LoopFree

\* POST /agents, up to the suspension at await request.json() (line 146).
create_agent_await(h) ==
    /\ Idle(h)
    /\ \E data \in CreateBodies :
          req' = [req EXCEPT ![h] = [agent_id |-> "", body |-> data]]
    /\ op' = [op EXCEPT ![h] = "create_agent"]
    /\ pc' = [pc EXCEPT ![h] = "await_json"]
    /\ UNCHANGED <<agent_instances, alive, response, engine_calls, tool_calls, log_lines>>
    /\ UNCHANGED streamVars

\* POST /agents, from the return of request.json() to the end (lines 147-172).
create_agent(h) ==
    /\ alive
    /\ pc[h] = "await_json"
    /\ LET r == create_agent_try(req[h].body, agent_instances) IN
          /\ agent_instances' = r.instances
          /\ response' = [response EXCEPT ![h] =
                 IF r.out.raised THEN create_agent_except(r.out) ELSE r.out.value]
    /\ pc' = [pc EXCEPT ![h] = "done"]
    /\ UNCHANGED <<alive, op, req, engine_calls, tool_calls, log_lines>>
    /\ UNCHANGED streamVars

\* ------------------------------------------------------ synchronous run
\* agent.run_sync(request_data["prompt"], ...): the subscript is evaluated
\* before the call, so a body without prompt raises KeyError and the engine
\* is not called.
agent_run_sync(request_data, outcome) ==
    IF "prompt" \notin DOMAIN request_data
    THEN [out |-> Raise("KeyError", "'prompt'"), called |-> 0]
    ELSE IF outcome = "ok"
    THEN [out |-> Return([data |-> "out", usage |-> [requests |-> 1], messages |-> <<"m">>]),
          called |-> 1]
    ELSE [out |-> Raise(outcome, "engine: " \o outcome), called |-> 1]

\* The except clauses of run_agent_sync (lines 209-217).
run_agent_sync_except(e) ==
    IF e.class = "ValidationError"
    THEN HTTPException(400, errors(e))
    ELSE IF e.class = "UnexpectedModelBehavior"
    THEN HTTPException(500, "Unexpected model behavior: " \o str(e))
    ELSE HTTPException(500, str(e))

\* run_agent_sync with the engine called before the registry is consulted.
run_agent_sync_engine_first(h) ==
    /\ Idle(h)
    /\ \E agent_id \in AgentIds, request_data \in RunBodies, outcome \in RunSyncOutcomes :
          LET r == agent_run_sync(request_data, outcome) IN
          /\ req' = [req EXCEPT ![h] = [agent_id |-> agent_id, body |-> request_data]]
          /\ engine_calls' = [engine_calls EXCEPT ![h] = @ + r.called]
          /\ response' = [response EXCEPT ![h] =
                 IF agent_id \notin DOMAIN agent_instances
                 THEN HTTPException(404, "Agent not found")
                 ELSE IF r.out.raised
                 THEN run_agent_sync_except(r.out)
                 ELSE JSONResponse([result |-> r.out.value.data,
                                    usage |-> r.out.value.usage,
                                    messages |-> r.out.value.messages])]
    /\ op' = [op EXCEPT ![h] = "run_agent_sync"]
    /\ pc' = [pc EXCEPT ![h] = "done"]
    /\ UNCHANGED <<agent_instances, alive, tool_calls, log_lines>>
    /\ UNCHANGED streamVars

\* POST /agents/{agent_id}/run_sync: the first handler bound to the route
\* (lines 174-217). It has no await.
run_agent_sync(h) ==
    /\ Idle(h)
    /\ \E agent_id \in AgentIds, request_data \in RunBodies, outcome \in RunSyncOutcomes :
          /\ req' = [req EXCEPT ![h] = [agent_id |-> agent_id, body |-> request_data]]
          /\ IF agent_id \notin DOMAIN agent_instances
             THEN /\ response' = [response EXCEPT ![h] = HTTPException(404, "Agent not found")]
                  /\ UNCHANGED engine_calls
             ELSE LET r == agent_run_sync(request_data, outcome) IN
                  /\ engine_calls' = [engine_calls EXCEPT ![h] = @ + r.called]
                  /\ response' = [response EXCEPT ![h] =
                         IF r.out.raised
                         THEN run_agent_sync_except(r.out)
                         ELSE JSONResponse([result |-> r.out.value.data,
                                            usage |-> r.out.value.usage,
                                            messages |-> r.out.value.messages])]
    /\ op' = [op EXCEPT ![h] = "run_agent_sync"]
    /\ pc' = [pc EXCEPT ![h] = "done"]
    /\ UNCHANGED <<agent_instances, alive, tool_calls, log_lines>>
    /\ UNCHANGED streamVars

\* ------------------------------------------------------- tool dispatcher
\* Python values returned by tools carry their type.
PyInt(n) == [type |-> "int", v |-> n]
PyStr(s) == [type |-> "str", v |-> s]

\* json.dumps of a tool's return value.
json_dumps(val) ==
    IF val.type = "int" THEN ToString(val.v) ELSE "\"" \o val.v \o "\""

\* Placeholder tool of the module (lines 111-112).
some_tool(arg1, arg2) == PyStr("Tool executed with " \o arg1 \o " and " \o ToString(arg2))

\* The tool of the specification's example.
add(a, b) == PyInt(a + b)

\* tool.function(**tool_args): binding the keyword arguments raises
\* TypeError unless they are exactly the parameters.
tool_function(name, tool_args) ==
    IF DOMAIN tool_args # ToolParams[name]
    THEN Raise("TypeError", name \o "() got unexpected or missing arguments")
    ELSE IF name = "add"
    THEN Return(add(tool_args.a, tool_args.b))
    ELSE Return(some_tool(tool_args.arg1, tool_args.arg2))

\* The test of line 231 left out.
tool_found_unchecked(agent, tool_name) == TRUE

\* tool_name in agent_tools (lines 229-231).
tool_found(agent, tool_name) == tool_name \in agent.tools

\* The whole body passed as keyword arguments.
tool_args_whole_body(request_data) == request_data

\* request_data.get("args", {}) (line 238).
tool_args_of(request_data) == Get(request_data, "args", EmptyDict)

\* The fault swallowed: a success response with no result.
call_tool_except_swallowed(e) == JSONResponse([result |-> "null"])

\* The except clause of call_tool (lines 254-256).
call_tool_except(e) == HTTPException(500, "Error calling tool: " \o str(e))

\* POST /agents/{agent_id}/tool_call (lines 221-256). It has no await.
call_tool(h) ==
    /\ Idle(h)
    /\ \E agent_id \in AgentIds, tool_name \in ToolNames, request_data \in ToolBodies :
          /\ req' = [req EXCEPT ![h] = [agent_id |-> agent_id, tool_name |-> tool_name,
                                        body |-> request_data]]
          /\ IF agent_id \notin DOMAIN agent_instances
             THEN /\ response' = [response EXCEPT ![h] = HTTPException(404, "Agent not found")]
                  /\ UNCHANGED tool_calls
             ELSE IF ~tool_found(agent_instances[agent_id], tool_name)
                  THEN /\ response' = [response EXCEPT ![h] =
                              HTTPException(404, "Tool '" \o tool_name \o
                                  "' not found for agent '" \o agent_id \o "'")]
                       /\ UNCHANGED tool_calls
                  ELSE LET tool_args == tool_args_of(request_data)
                           result == tool_function(tool_name, tool_args)
                       IN /\ tool_calls' = [tool_calls EXCEPT ![h] =
                                 Append(@, [name |-> tool_name, kwargs |-> tool_args])]
                          /\ response' = [response EXCEPT ![h] =
                                 IF result.raised
                                 THEN call_tool_except(result)
                                 ELSE JSONResponse([result |-> json_dumps(result.value)])]
    /\ op' = [op EXCEPT ![h] = "call_tool"]
    /\ pc' = [pc EXCEPT ![h] = "done"]
    /\ UNCHANGED <<agent_instances, alive, engine_calls, log_lines>>
    /\ UNCHANGED streamVars

\* ------------------------------------------------------------------ log
\* POST /agents/{agent_id}/log (lines 266-270): prints and acknowledges.
log_message(h) ==
    /\ Idle(h)
    /\ \E agent_id \in AgentIds, log_entry \in LogEntries :
          /\ req' = [req EXCEPT ![h] = [agent_id |-> agent_id, body |-> log_entry]]
          /\ log_lines' = [log_lines EXCEPT ![h] =
                 Append(@, "[" \o log_entry.timestamp \o "] " \o agent_id \o " - "
                           \o log_entry.level \o ": " \o log_entry.message)]
    /\ response' = [response EXCEPT ![h] = JSONResponse([status |-> "success"])]
    /\ op' = [op EXCEPT ![h] = "log_message"]
    /\ pc' = [pc EXCEPT ![h] = "done"]
    /\ UNCHANGED <<agent_instances, alive, engine_calls, tool_calls>>
    /\ UNCHANGED streamVars

\* ---------------------------------------------------------------- crash
\* crash_agent without the test of line 385.
crash_agent_unchecked(h) ==
    /\ Idle(h)
    /\ \E agent_id \in AgentIds :
          req' = [req EXCEPT ![h] = [agent_id |-> agent_id, body |-> EmptyDict]]
    /\ alive' = FALSE
    /\ pc' = [pc EXCEPT ![h] = "exited"]
    /\ op' = [op EXCEPT ![h] = "crash_agent"]
    /\ UNCHANGED <<agent_instances, response, engine_calls, tool_calls, log_lines>>
    /\ UNCHANGED streamVars

\* POST /agents/{agent_id}/crash (lines 383-391): os._exit(1) ends the
\* process, so no response is produced and no handler runs afterwards.
crash_agent(h) ==
    /\ Idle(h)
    /\ \E agent_id \in AgentIds :
          /\ req' = [req EXCEPT ![h] = [agent_id |-> agent_id, body |-> EmptyDict]]
          /\ IF agent_id \notin DOMAIN agent_instances
             THEN /\ response' = [response EXCEPT ![h] = HTTPException(404, "Agent not found")]
                  /\ pc' = [pc EXCEPT ![h] = "done"]
                  /\ UNCHANGED alive
             ELSE /\ alive' = FALSE
                  /\ pc' = [pc EXCEPT ![h] = "exited"]
                  /\ UNCHANGED response
    /\ op' = [op EXCEPT ![h] = "crash_agent"]
    /\ UNCHANGED <<agent_instances, engine_calls, tool_calls, log_lines>>
    /\ UNCHANGED streamVars

\* ------------------------------------------------------------ streaming
\* Agent ids used in run_stream requests: a registered one and the absent one.
StreamAgentIds == {"example_agent", "A"}

\* Exceptions the engine may raise while a chunk is awaited.
ChunkFailures == {"ValidationError", "UnexpectedModelBehavior"}

\* The k-th item of result.stream_text(); the items of one stream differ.
stream_text(k) == "part" \o ToString(k)

chunk_event(response_part) == [status |-> "chunk", data |-> response_part]
complete_event(data, usage) == [status |-> "complete", result |-> data, usage |-> usage]
error_event(e) == [status |-> "error", error_type |-> e.class, message |-> str(e)]

\* A chunk merged into the preceding chunk event instead of being yielded
\* on its own.
yield_chunk_batched(evs, response_part) ==
    IF evs # << >> /\ evs[Len(evs)].status = "chunk"
    THEN [evs EXCEPT ![Len(evs)] = chunk_event(@.data \o response_part)]
    ELSE Append(evs, chunk_event(response_part))

\* yield json.dumps(to_jsonable_python(chunk)) (lines 334-338).
yield_chunk(evs, response_part) == Append(evs, chunk_event(response_part))

\* POST /agents/{agent_id}/run_stream (lines 356-363): the handler returns
\* the StreamingResponse; the framework then drives run_and_stream.
run_agent_stream(h) ==
    /\ Idle(h)
    /\ \E agent_id \in StreamAgentIds, request_data \in RunBodies :
          /\ req' = [req EXCEPT ![h] = [agent_id |-> agent_id, body |-> request_data]]
          /\ IF agent_id \notin DOMAIN agent_instances
             THEN /\ response' = [response EXCEPT ![h] = PlainTextResponse("Agent not found", 404)]
                  /\ pc' = [pc EXCEPT ![h] = "done"]
                  /\ UNCHANGED channel
             ELSE /\ response' = [response EXCEPT ![h] = StreamingResponse]
                  /\ pc' = [pc EXCEPT ![h] = "gen_start"]
                  /\ channel' = [channel EXCEPT ![h] = "open"]
    /\ op' = [op EXCEPT ![h] = "run_agent_stream"]
    /\ UNCHANGED <<agent_instances, alive, engine_calls, tool_calls, log_lines>>
    /\ UNCHANGED <<session, produced, events, escaped>>

\* An exception leaves the generator: the framework stops sending.
GeneratorRaises(h, class) ==
    /\ escaped' = [escaped EXCEPT ![h] = class]
    /\ channel' = [channel EXCEPT ![h] = "broken"]
    /\ pc' = [pc EXCEPT ![h] = "done"]

\* run_and_stream from its first resumption to the await inside
\* agent.run_stream(...).__aenter__ (lines 324-330). request_data["prompt"]
\* is evaluated outside the try block.
run_and_stream_enter(h) ==
    /\ alive
    /\ pc[h] = "gen_start"
    /\ IF "prompt" \notin DOMAIN req[h].body
       THEN /\ GeneratorRaises(h, "KeyError")
            /\ UNCHANGED engine_calls
       ELSE /\ engine_calls' = [engine_calls EXCEPT ![h] = @ + 1]
            /\ pc' = [pc EXCEPT ![h] = "opening"]
            /\ UNCHANGED <<channel, escaped>>
    /\ UNCHANGED <<agent_instances, alive, op, req, response, tool_calls, log_lines>>
    /\ UNCHANGED <<session, produced, events>>

\* __aenter__ finishes (line 330): the session is open, or the engine
\* raised, outside the try block.
run_and_stream_opened(h) ==
    /\ alive
    /\ pc[h] = "opening"
    /\ \/ /\ session' = [session EXCEPT ![h] = "open"]
          /\ pc' = [pc EXCEPT ![h] = "streaming"]
          /\ UNCHANGED <<channel, escaped>>
       \/ /\ GeneratorRaises(h, "UnexpectedModelBehavior")
          /\ UNCHANGED session
    /\ UNCHANGED <<agent_instances, alive, op, req, response, engine_calls, tool_calls, log_lines>>
    /\ UNCHANGED <<produced, events>>

\* One resumption of the async for over result.stream_text() (lines
\* 331-354): the engine hands over a fragment, raises, or ends; at the end
\* result.data and result.usage() are computed, which may raise too.
run_and_stream_next(h) ==
    /\ alive
    /\ pc[h] = "streaming"
    /\ \/ LET response_part == stream_text(Len(produced[h]) + 1) IN
             /\ Len(produced[h]) < MaxFragments
             /\ produced' = [produced EXCEPT ![h] = Append(@, response_part)]
             /\ events' = [events EXCEPT ![h] = yield_chunk(@, response_part)]
             /\ UNCHANGED pc
       \/ \E class \in ChunkFailures :
             /\ events' = [events EXCEPT ![h] =
                    Append(@, error_event(Raise(class, "engine: " \o class)))]
             /\ pc' = [pc EXCEPT ![h] = "after_terminal"]
             /\ UNCHANGED produced
       \/ /\ events' = [events EXCEPT ![h] =
                 Append(@, complete_event("result.data", [requests |-> 1]))]
          /\ pc' = [pc EXCEPT ![h] = "after_terminal"]
          /\ UNCHANGED produced
       \/ /\ events' = [events EXCEPT ![h] =
                 Append(@, error_event(Raise("RuntimeError", "result")))]
          /\ pc' = [pc EXCEPT ![h] = "after_terminal"]
          /\ UNCHANGED produced
    /\ UNCHANGED <<agent_instances, alive, op, req, response, engine_calls, tool_calls, log_lines>>
    /\ UNCHANGED <<session, channel, escaped>>

\* The generator is resumed after its terminal event: the async with block
\* is left and __aexit__ closes the session, which may raise.
run_and_stream_exit(h) ==
    /\ alive
    /\ pc[h] = "after_terminal"
    /\ session' = [session EXCEPT ![h] = "closed"]
    /\ \/ /\ channel' = [channel EXCEPT ![h] = "closed"]
          /\ pc' = [pc EXCEPT ![h] = "done"]
          /\ UNCHANGED escaped
       \/ GeneratorRaises(h, "RuntimeError")
    /\ UNCHANGED <<agent_instances, alive, op, req, response, engine_calls, tool_calls, log_lines>>
    /\ UNCHANGED <<produced, events>>

\* The abandonment caught by the except clause, as `except BaseException`
\* would: the generator yields an error event before the session is closed.
run_and_stream_abandon_caught(h) ==
    /\ alive
    /\ pc[h] \in {"gen_start", "opening", "streaming"}
    /\ session' = [session EXCEPT ![h] = IF pc[h] = "streaming" THEN "closed" ELSE @]
    /\ events' = [events EXCEPT ![h] =
           IF pc[h] = "streaming"
           THEN Append(@, error_event(Raise("GeneratorExit", "")))
           ELSE @]
    /\ channel' = [channel EXCEPT ![h] = "abandoned"]
    /\ pc' = [pc EXCEPT ![h] = "done"]
    /\ UNCHANGED <<agent_instances, alive, op, req, response, engine_calls, tool_calls, log_lines>>
    /\ UNCHANGED <<produced, escaped>>

\* The caller abandons the stream: GeneratorExit or CancelledError is
\* raised at the suspension point. Neither is an Exception, so the except
\* clause does not run; inside the async with block __aexit__ runs.
run_and_stream_abandon(h) ==
    /\ alive
    /\ pc[h] \in {"gen_start", "opening", "streaming"}
    /\ session' = [session EXCEPT ![h] = IF pc[h] = "streaming" THEN "closed" ELSE @]
    /\ channel' = [channel EXCEPT ![h] = "abandoned"]
    /\ pc' = [pc EXCEPT ![h] = "done"]
    /\ UNCHANGED <<agent_instances, alive, op, req, response, engine_calls, tool_calls, log_lines>>
    /\ UNCHANGED <<produced, events, escaped>>

\* -------------------------------------------------------- specification
\* agent_instances as the module creates it (line 53).
Init ==
    /\ agent_instances = [i \in {"example_agent", "bank_support_agent"} |->
                             IF i = "example_agent" THEN example_agent ELSE support_agent]
    /\ alive = TRUE
    /\ op = [h \in Handlers |-> "none"]
    /\ pc = [h \in Handlers |-> "idle"]
    /\ req = [h \in Handlers |-> NoRequest]
    /\ response = [h \in Handlers |-> NoResponse]
    /\ engine_calls = [h \in Handlers |-> 0]
    /\ tool_calls = [h \in Handlers |-> << >>]
    /\ log_lines = [h \in Handlers |-> << >>]
    /\ session = [h \in Handlers |-> "none"]
    /\ produced = [h \in Handlers |-> << >>]
    /\ events = [h \in Handlers |-> << >>]
    /\ channel = [h \in Handlers |-> "none"]
    /\ escaped = [h \in Handlers |-> "none"]

Next ==
    \E h \in Handlers :
        \/ create_agent_await(h)
        \/ create_agent(h)
        \/ run_agent_sync(h)
        \/ call_tool(h)
        \/ log_message(h)
        \/ crash_agent(h)
        \/ run_agent_stream(h)
        \/ run_and_stream_enter(h)
        \/ run_and_stream_opened(h)
        \/ run_and_stream_next(h)
        \/ run_and_stream_exit(h)
        \/ run_and_stream_abandon(h)

Spec == Init /\ [][Next]_vars

\* ================================================================ claims
InitialAgentIds == {"example_agent", "bank_support_agent"}

IsTerminal(e) == e.status \in {"complete", "error"}
TerminalCount(evs) == Cardinality({k \in 1..Len(evs) : IsTerminal(evs[k])})
ErrorCount(evs) == Cardinality({k \in 1..Len(evs) : evs[k].status = "error"})

\* A streaming run on a registered agent that the caller followed to its end.
StreamRan(h) ==
    /\ op[h] = "run_agent_stream"
    /\ response[h] = StreamingResponse
    /\ pc[h] = "done"
    /\ channel[h] \in {"closed", "broken"}

\* C1: every streaming run on a registered agent, whatever the body and the
\* engine do, delivers exactly one terminal event (complete or error), and
\* that event is the last one delivered.
C1_ExactlyOneTerminalEventLast ==
    \A h \in Handlers :
        StreamRan(h) =>
            /\ TerminalCount(events[h]) = 1
            /\ IsTerminal(events[h][Len(events[h])])

\* The step in which handler h of POST /agents resumes from request.json()
\* with a body that names an agent id.
RegisterStep(h) ==
    /\ pc[h] = "await_json"
    /\ pc'[h] = "done"
    /\ "agent_id" \in DOMAIN req[h].body

WellFormed(data) == {"agent_id", "model", "system_prompt"} \subseteq DOMAIN data

AlreadyExists == HTTPException(400, "Agent with this ID already exists")
RegisterSuccess(agent_id) == JSONResponse([status |-> "success", agent_id |-> agent_id])

\* C2: registering an id that is already in the registry fails with
\* AlreadyExists (status 400, detail "Agent with this ID already exists"),
\* not with the status of an Unknown failure, and leaves the registry as it is.
C2_DuplicateRegisterAlreadyExists ==
    [][\A h \in Handlers :
          (RegisterStep(h) /\ req[h].body.agent_id \in DOMAIN agent_instances)
              => /\ response'[h] = AlreadyExists
                 /\ agent_instances' = agent_instances]_vars

\* C3: registering an absent id with a well-formed definition inserts an
\* entry under that id and returns success, so later lookups find it.
C3_RegisterInsertsAndSucceeds ==
    [][\A h \in Handlers :
          (/\ RegisterStep(h)
           /\ WellFormed(req[h].body)
           /\ req[h].body.agent_id \notin DOMAIN agent_instances)
              => /\ response'[h] = RegisterSuccess(req[h].body.agent_id)
                 /\ req[h].body.agent_id \in DOMAIN agent_instances']_vars

\* The handlers registering id i with a well-formed definition.
Registrations(i) ==
    {h \in Handlers : /\ op[h] = "create_agent"
                      /\ WellFormed(req[h].body)
                      /\ req[h].body.agent_id = i}

\* C4: when N >= 1 registrations of one id that was absent beforehand have
\* all been handled, in whatever interleaving, exactly one of them returned
\* success and the others failed with AlreadyExists.
C4_ConcurrentRegisterExactlyOneSuccess ==
    \A i \in AgentIds \ InitialAgentIds :
        LET R == Registrations(i) IN
        (R # {} /\ \A h \in R : pc[h] = "done")
            => /\ Cardinality({h \in R : response[h] = RegisterSuccess(i)}) = 1
               /\ Cardinality({h \in R : response[h] = AlreadyExists}) = Cardinality(R) - 1

\* The step in which handler h receives and serves a request of endpoint o.
Serves(h, o) == pc[h] = "idle" /\ op'[h] = o

\* Nothing outside the response of the serving handler changes.
NoSideEffect ==
    /\ agent_instances' = agent_instances
    /\ engine_calls' = engine_calls
    /\ tool_calls' = tool_calls
    /\ log_lines' = log_lines
    /\ session' = session
    /\ channel' = channel
    /\ events' = events
    /\ alive' = alive

\* C5: for an id absent from the registry, run_agent_sync, run_agent_stream
\* and call_tool each answer NotFound (status 404) and do nothing else: no
\* engine call, no tool invocation, no stream opened, registry unchanged.
C5_UnregisteredRunToolNotFound ==
    [][\A h \in Handlers :
          (/\ \/ Serves(h, "run_agent_sync")
              \/ Serves(h, "run_agent_stream")
              \/ Serves(h, "call_tool")
           /\ req'[h].agent_id \notin DOMAIN agent_instances)
              => /\ response'[h].status_code = 404
                 /\ pc'[h] = "done"
                 /\ NoSideEffect]_vars

C5_Witness ==
    \E h1, h2 \in Handlers :
        /\ h1 # h2
        /\ op[h1] = "run_agent_stream" /\ op[h2] = "call_tool"
        /\ \A h \in {h1, h2} :
              /\ pc[h] = "done"
              /\ req[h].agent_id \notin DOMAIN agent_instances
              /\ response[h].status_code = 404

\* C6: for an id absent from the registry, log_message answers NotFound
\* (status 404), prints no line and returns no acknowledgement.
C6_UnregisteredLogNotFound ==
    [][\A h \in Handlers :
          (Serves(h, "log_message") /\ req'[h].agent_id \notin DOMAIN agent_instances)
              => /\ response'[h].status_code = 404
                 /\ log_lines' = log_lines]_vars

\* C7: once the streaming response has been handed to the caller, a failure
\* at any later point is reported by exactly one error event followed by the
\* end of the channel, and no exception leaves run_and_stream.
C7_StreamFailureOnlyAsErrorEvent ==
    \A h \in Handlers :
        op[h] = "run_agent_stream" =>
            /\ escaped[h] = "none"
            /\ channel[h] # "broken"
            /\ ErrorCount(events[h]) <= 1
            /\ \A k \in 1..Len(events[h]) :
                  events[h][k].status = "error" => k = Len(events[h])

\* The payloads of the chunk events of evs, in delivery order.
ChunkPayloads(evs) ==
    LET chunks == SelectSeq(evs, LAMBDA e : e.status = "chunk")
    IN [k \in 1..Len(chunks) |-> chunks[k].data]

\* C8: within one stream the chunk events are exactly the fragments the
\* engine produced, one event per fragment and in the order produced, and
\* every chunk event precedes the terminal event.
C8_ChunksAreFragmentsInOrder ==
    \A h \in Handlers :
        /\ ChunkPayloads(events[h]) = produced[h]
        /\ \A j, k \in 1..Len(events[h]) :
              (events[h][j].status = "chunk" /\ IsTerminal(events[h][k])) => j < k

C8_Witness ==
    \E h \in Handlers :
        /\ pc[h] = "done"
        /\ Len(produced[h]) >= 2
        /\ produced[h][1] # produced[h][2]
        /\ TerminalCount(events[h]) = 1

\* The step in which call_tool is served for a registered agent.
ToolStep(h) ==
    /\ Serves(h, "call_tool")
    /\ req'[h].agent_id \in DOMAIN agent_instances

\* C9: call_tool with a registered agent id and a tool name absent from the
\* agent's tool table answers NotFound (status 404), invokes no tool
\* function and leaves the tool table and the registry unchanged.
C9_AbsentToolNotFound ==
    [][\A h \in Handlers :
          (/\ ToolStep(h)
           /\ req'[h].tool_name \notin agent_instances[req'[h].agent_id].tools)
              => /\ response'[h].status_code = 404
                 /\ tool_calls' = tool_calls
                 /\ agent_instances' = agent_instances]_vars

C9_Witness ==
    \E h \in Handlers :
        /\ op[h] = "call_tool" /\ pc[h] = "done"
        /\ req[h].agent_id \in DOMAIN agent_instances
        /\ req[h].tool_name \notin agent_instances[req[h].agent_id].tools
        /\ response[h].status_code = 404
        /\ tool_calls[h] = << >>

\* The named arguments the caller supplied in the body of a tool_call.
SuppliedArgs(body) == IF "args" \in DOMAIN body THEN body.args ELSE << >>

\* C10: call_tool with a registered agent and a tool name in its tool table
\* invokes that tool function exactly once with the caller's arguments as
\* named parameters and returns the serialized return value: add with a=2,
\* b=3 returns 5, some_tool with arg1="x", arg2=1 returns its JSON string.
C10_ToolInvokedOnceResultSerialized ==
    [][\A h \in Handlers :
          (/\ ToolStep(h)
           /\ req'[h].tool_name \in agent_instances[req'[h].agent_id].tools)
              => LET name == req'[h].tool_name
                     kwargs == SuppliedArgs(req'[h].body)
                 IN /\ tool_calls'[h] = <<[name |-> name, kwargs |-> kwargs]>>
                    /\ \A g \in Handlers \ {h} : tool_calls'[g] = tool_calls[g]
                    /\ (name = "add" /\ kwargs = [a |-> 2, b |-> 3])
                          => response'[h] = [status_code |-> 200, content |-> [result |-> "5"]]
                    /\ (name = "some_tool" /\ kwargs = [arg1 |-> "x", arg2 |-> 1])
                          => response'[h] = [status_code |-> 200, content |->
                                 [result |-> "\"Tool executed with x and 1\""]]]_vars

C10_Witness ==
    \E h \in Handlers :
        /\ op[h] = "call_tool" /\ pc[h] = "done"
        /\ req[h].agent_id = "example_agent" /\ req[h].tool_name = "add"
        /\ req[h].body = [args |-> [a |-> 2, b |-> 3]]
        /\ tool_calls[h] = <<[name |-> "add", kwargs |-> [a |-> 2, b |-> 3]]>>
        /\ response[h] = [status_code |-> 200, content |-> [result |-> "5"]]

\* The message of the TypeError Python raises when the keyword arguments do
\* not fit the parameters of the tool.
BindingFault(name) == name \o "() got unexpected or missing arguments"

\* C11: when the invocation of a resolved tool faults, the caller receives a
\* failure (status 500) whose detail is "Error calling tool: " followed by
\* the underlying message; a faulted invocation never yields a success.
C11_ToolFaultSurfacedAsToolError ==
    [][\A h \in Handlers :
          (/\ ToolStep(h)
           /\ req'[h].tool_name \in agent_instances[req'[h].agent_id].tools
           /\ DOMAIN SuppliedArgs(req'[h].body) # ToolParams[req'[h].tool_name])
              => /\ response'[h].status_code = 500
                 /\ response'[h].detail =
                        "Error calling tool: " \o BindingFault(req'[h].tool_name)]_vars

C11_Witness ==
    \E h \in Handlers :
        /\ op[h] = "call_tool" /\ pc[h] = "done"
        /\ req[h].agent_id = "example_agent" /\ req[h].tool_name = "add"
        /\ req[h].body = EmptyDict
        /\ tool_calls[h] = <<[name |-> "add", kwargs |-> EmptyDict]>>
        /\ response[h] = [status_code |-> 500, detail |->
               "Error calling tool: add() got unexpected or missing arguments"]

\* C12: every failed run_agent_sync on a registered agent surfaces one
\* classification and a message: Validation (status 400) for a request
\* without prompt or a schema mismatch, EngineBehavior (status 500,
\* "Unexpected model behavior: ...") or Unknown (status 500) otherwise, and
\* never a success response.
C12_SyncFailureClassified ==
    [][\A h \in Handlers :
          (Serves(h, "run_agent_sync") /\ req'[h].agent_id \in DOMAIN agent_instances)
              => /\ "prompt" \notin DOMAIN req'[h].body => response'[h].status_code = 400
                 /\ response'[h].status_code \in {200, 400, 500}
                 /\ response'[h].status_code # 200 => "detail" \in DOMAIN response'[h]]_vars

\* C13: when the caller abandons a stream before a terminal event (the
\* generator is closed or cancelled at a suspension point), the engine
\* session opened for the stream is closed and no event is emitted on the
\* stream from then on.
C13_AbandonClosesSessionNoMoreEvents ==
    [][\A h \in Handlers :
          channel'[h] = "abandoned"
              => /\ session'[h] # "open"
                 /\ events'[h] = events[h]]_vars

C13_Witness ==
    \E h \in Handlers :
        /\ channel[h] = "abandoned"
        /\ session[h] = "closed"
        /\ Len(events[h]) >= 1
        /\ TerminalCount(events[h]) = 0

\* C14: the registry changes only by a successful register, which adds one
\* entry for an id that was absent; run_agent_sync, run_agent_stream,
\* call_tool and log_message leave it unchanged, and an entry once present
\* is never replaced or removed.
C14_RegistryChangesOnlyByRegister ==
    [][agent_instances' # agent_instances
          => \E h \in Handlers :
                /\ RegisterStep(h)
                /\ req[h].body.agent_id \notin DOMAIN agent_instances
                /\ response'[h] = RegisterSuccess(req[h].body.agent_id)
                /\ DOMAIN agent_instances' = DOMAIN agent_instances \cup {req[h].body.agent_id}
                /\ \A i \in DOMAIN agent_instances :
                      agent_instances'[i] = agent_instances[i]]_vars

C14_Witness ==
    \E h1, h2 \in Handlers :
        /\ op[h1] = "create_agent" /\ pc[h1] = "done"
        /\ op[h2] \in {"run_agent_sync", "call_tool", "log_message"} /\ pc[h2] = "done"
        /\ response[h2].status_code = 200
        /\ DOMAIN agent_instances = InitialAgentIds
        /\ agent_instances["example_agent"] = example_agent
        /\ agent_instances["bank_support_agent"] = support_agent

\* C16: the serving process is terminated only by crash_agent on a
\* registered id: no other operation terminates it on any input, and
\* crash_agent on an id absent from the registry answers NotFound (status
\* 404) and leaves the process running.
C16_OnlyCrashTerminates ==
    [][/\ (alive /\ ~alive')
            => \E h \in Handlers :
                  /\ Serves(h, "crash_agent")
                  /\ req'[h].agent_id \in DOMAIN agent_instances
       /\ \A h \in Handlers :
             (Serves(h, "crash_agent") /\ req'[h].agent_id \notin DOMAIN agent_instances)
                 => /\ alive'
                    /\ response'[h].status_code = 404]_vars

C16_Witness ==
    \E h1, h2 \in Handlers :
        /\ op[h1] = "crash_agent" /\ pc[h1] = "done"
        /\ req[h1].agent_id \notin DOMAIN agent_instances
        /\ response[h1].status_code = 404
        /\ op[h2] = "crash_agent" /\ pc[h2] = "exited"
        /\ req[h2].agent_id \in DOMAIN agent_instances
        /\ ~alive

\* C17: a run_agent_stream request on a registered agent whose body has no
\* prompt is rejected as a Validation failure before the streaming channel
\* is opened, and no engine session is opened for it.
C17_StreamMissingPromptRejectedBeforeStart ==
    [][\A h \in Handlers :
          (/\ Serves(h, "run_agent_stream")
           /\ req'[h].agent_id \in DOMAIN agent_instances
           /\ "prompt" \notin DOMAIN req'[h].body)
              => /\ response'[h].status_code \in {400, 422}
                 /\ channel'[h] = "none"
                 /\ session'[h] = "none"
                 /\ engine_calls'[h] = 0]_vars

\* The kinds of the error taxonomy.
Taxonomy == {"Validation", "NotFound", "AlreadyExists", "EngineBehavior", "ToolError", "Unknown"}

\* C18: for every failure cause the message carried by a stream's error
\* event is the message run_agent_sync surfaces for the same cause, and the
\* classification the event carries is one of the taxonomy kinds.
C18_StreamErrorSameAsSync ==
    \A h \in Handlers :
        \A k \in 1..Len(events[h]) :
            events[h][k].status = "error"
                => LET ev == events[h][k]
                       sync == run_agent_sync_except(Raise(ev.error_type, ev.message))
                   IN /\ ev.message = sync.detail
                      /\ ev.error_type \in Taxonomy

\* C19: a streaming run gives up control at each wait for the next chunk:
\* while a stream is open and has not delivered its terminal event, any
\* other request (register, run, call_tool, log, another stream) can be
\* taken up and handled to completion without waiting for the stream.
C19_OpenStreamDoesNotBlockOthers ==
    \A h, g \in Handlers :
        (/\ h # g
         /\ alive
         /\ pc[h] \in {"opening", "streaming"}
         /\ pc[g] = "idle")
            => /\ ENABLED create_agent_await(g)
               /\ ENABLED (run_agent_sync(g) /\ pc'[g] = "done")
               /\ ENABLED (call_tool(g) /\ pc'[g] = "done")
               /\ ENABLED (log_message(g) /\ pc'[g] = "done")
               /\ ENABLED run_agent_stream(g)

C19_Witness ==
    \E h, g \in Handlers :
        /\ h # g
        /\ pc[h] = "streaming"
        /\ Len(events[h]) >= 1
        /\ TerminalCount(events[h]) = 0
        /\ op[g] = "call_tool" /\ pc[g] = "done"
        /\ response[g].status_code = 200

\* The response of a registration turned away by the duplicate test of
\* line 149.
DuplicateRejected ==
    create_agent_except([raised |-> TRUE, class |-> "HTTPException", status_code |-> 400,
                         detail |-> "Agent with this ID already exists"])

\* Handler h registered id i with a well-formed definition and found the id
\* absent at the test of line 149.
PassedTest(h, i) ==
    /\ op[h] = "create_agent"
    /\ pc[h] = "done"
    /\ WellFormed(req[h].body)
    /\ req[h].body.agent_id = i
    /\ response[h] # DuplicateRejected

\* C20: create_agent has no suspension point between the test that the id
\* is absent and the insertion, so under any interleaving two registrations
\* of the same id never both pass the test.
C20_AtMostOneRegistrationPassesTest ==
    \A i \in AgentIds :
        Cardinality({h \in Handlers : PassedTest(h, i)}) <= 1

====
